---- MODULE Spec2Model ----
(***************************************************************************)
(* Model of tools/schema_lint.py: the record loader (collect_divisions and *)
(* the field normalisers), the three validation passes and main.           *)
(*                                                                         *)
(* Python strings are sequences of one-character strings, so that          *)
(* str.rsplit can be computed.  YAML values are records tagged by type.    *)
(* Calendar dates are the integers DateMin..DateMax.                       *)
(***************************************************************************)
EXTENDS Integers, Sequences, FiniteSets, TLC

\* ---------------------------------------------------------------- bounds
MaxFiles == 2
MaxRecords == 2
MaxDate == 1
MaxRel == 1

\* ------------------------------------------------------- python constants
DateMin == 0
DateMax == MaxDate
NoDate == 0 - 1
NoneStr == <<"None">>
sNO == <<"N", "O">>
sYES == <<"Y", "E", "S">>

\* ------------------------------------------------------------ YAML values
Null == [t |-> "null"]
Missing == [t |-> "missing"]
BoolV(b) == [t |-> "bool", v |-> b]
StrV(s) == [t |-> "str", v |-> s]
IntV(n) == [t |-> "int", v |-> n]
DateV(d) == [t |-> "date", v |-> d]
DateTimeV(d, h) == [t |-> "datetime", v |-> d, h |-> h]
ListV(xs) == [t |-> "list", v |-> xs]
DictV(idv) == [t |-> "map", id |-> idv]
Block(i, p, f, to, w, b) ==
    [t |-> "map", id |-> i, parent |-> p, from |-> f, to |-> to, was |-> w, became |-> b]

\* ------------------------------------------------------------ error list
Err(kind, file, id, field, ref, d1, d2) ==
    [kind |-> kind, file |-> file, id |-> id, field |-> field, ref |-> ref,
     d1 |-> d1, d2 |-> d2]

\* ------------------------------------------------------------ parse_date
DigitVal == [c \in {"0", "1", "2", "3", "4", "5", "6", "7", "8", "9"} |->
    CASE c = "0" -> 0 [] c = "1" -> 1 [] c = "2" -> 2 [] c = "3" -> 3 [] c = "4" -> 4
      [] c = "5" -> 5 [] c = "6" -> 6 [] c = "7" -> 7 [] c = "8" -> 8 [] c = "9" -> 9]

IsIso(s) == Len(s) = 1 /\ s[1] \in DOMAIN DigitVal /\ DigitVal[s[1]] <= DateMax

FromIsoFormat(s) == DigitVal[s[1]]

parse_date(value, file, id) ==
    IF value.t = "null" THEN [r |-> NoDate, e |-> <<>>]
    ELSE IF value.t = "datetime" THEN [r |-> value.v, e |-> <<>>]
    ELSE IF value.t = "date" THEN [r |-> value.v, e |-> <<>>]
    ELSE IF value.t # "str"
        THEN [r |-> NoDate, e |-> <<Err("date_type", file, id, "", <<>>, NoDate, NoDate)>>]
    ELSE IF IsIso(value.v) THEN [r |-> FromIsoFormat(value.v), e |-> <<>>]
    ELSE [r |-> NoDate, e |-> <<Err("date_invalid", file, id, "", value.v, NoDate, NoDate)>>]

\* ------------------------------------------------------ normalize_parent
normalize_parent(value, file, id) ==
    IF value.t = "null" THEN [r |-> NoneStr, e |-> <<>>]
    ELSE IF value.t = "bool" THEN [r |-> IF value.v THEN sYES ELSE sNO, e |-> <<>>]
    ELSE IF value.t = "str" THEN [r |-> value.v, e |-> <<>>]
    ELSE [r |-> NoneStr, e |-> <<Err("parent_type", file, id, "parent", <<>>, NoDate, NoDate)>>]

\* ---------------------------------------------------- normalize_relation
RECURSIVE RelationItems(_, _, _, _, _)
RelationItems(items, i, file, id, field) ==
    IF i > Len(items) THEN [r |-> <<>>, e |-> <<>>]
    ELSE LET item == items[i]
             rest == RelationItems(items, i + 1, file, id, field)
         IN IF item.t = "str" THEN [r |-> <<item.v>> \o rest.r, e |-> rest.e]
            ELSE IF item.t = "map"
                THEN IF item.id.t = "str"
                        THEN [r |-> <<item.id.v>> \o rest.r, e |-> rest.e]
                        ELSE [r |-> rest.r,
                              e |-> <<Err("rel_item_dict", file, id, field, <<>>, i, NoDate)>>
                                    \o rest.e]
            ELSE [r |-> rest.r,
                  e |-> <<Err("rel_item_type", file, id, field, <<>>, i, NoDate)>> \o rest.e]

normalize_relation(value, file, id, field) ==
    IF value.t = "null" THEN [r |-> <<>>, e |-> <<>>]
    ELSE IF value.t = "list" THEN RelationItems(value.v, 1, file, id, field)
    ELSE [r |-> <<>>, e |-> <<Err("rel_not_list", file, id, field, <<>>, NoDate, NoDate)>>]

\* ------------------------------------------------------------- str.rsplit
RECURSIVE LastSep(_, _)
LastSep(s, i) == IF i = 0 THEN 0 ELSE IF s[i] = ":" THEN i ELSE LastSep(s, i - 1)

BaseId(s) ==
    LET k == LastSep(s, Len(s)) IN IF k = 0 THEN s ELSE SubSeq(s, 1, k - 1)

\* ------------------------------------------------------ the Division dict
Ids(divs) == {divs[i].id : i \in DOMAIN divs}

Lookup(divs, id) == divs[CHOOSE i \in DOMAIN divs : divs[i].id = id]

Division(id, file, parent, from_date, to_date, base_id, raw) ==
    [id |-> id, file |-> file, parent |-> parent, from_date |-> from_date,
     to_date |-> to_date, base_id |-> base_id, raw |-> raw]

\* faulty variant of CollectBlock: no membership test, the dict assignment lets
\* the later record replace the first
CollectBlockLastWins(divs, errs, file, block) ==
    IF block.id.t # "str"
        THEN [d |-> divs,
              e |-> Append(errs, Err("missing_id", file, <<>>, "", <<>>, NoDate, NoDate))]
    ELSE LET div_id == block.id.v
             f == parse_date(block.from, file, div_id)
             t == parse_date(block.to, file, div_id)
             p == normalize_parent(block.parent, file, div_id)
             new == Division(div_id, file, p.r, f.r, t.r, BaseId(div_id), block)
         IN [d |-> IF div_id \in Ids(divs)
                     THEN [i \in DOMAIN divs |-> IF divs[i].id = div_id THEN new ELSE divs[i]]
                     ELSE Append(divs, new),
             e |-> errs \o f.e \o t.e \o p.e]

\* one iteration of the block loop of collect_divisions, for a mapping block
CollectBlock(divs, errs, file, block) ==
    IF block.id.t # "str"
        THEN [d |-> divs,
              e |-> Append(errs, Err("missing_id", file, <<>>, "", <<>>, NoDate, NoDate))]
    ELSE IF block.id.v \in Ids(divs)
        THEN [d |-> divs,
              e |-> Append(errs, Err("duplicate_id", file, block.id.v, "", <<>>,
                                     Lookup(divs, block.id.v).file, NoDate))]
    ELSE LET div_id == block.id.v
             f == parse_date(block.from, file, div_id)
             t == parse_date(block.to, file, div_id)
             p == normalize_parent(block.parent, file, div_id)
         IN [d |-> Append(divs, Division(div_id, file, p.r, f.r, t.r, BaseId(div_id), block)),
             e |-> errs \o f.e \o t.e \o p.e]

\* -------------------------------------------------- validate_parent_links
\* faulty variant of ParentError: the "NO" sentinel is looked up like an id
ParentErrorNoSentinel(div, valid_ids) ==
    IF div.parent = NoneStr
        THEN <<Err("missing_parent", div.file, div.id, "parent", <<>>, NoDate, NoDate)>>
    ELSE IF div.parent \notin valid_ids
        THEN <<Err("parent_not_found", div.file, div.id, "parent", div.parent, NoDate, NoDate)>>
    ELSE <<>>

ParentError(div, valid_ids) ==
    IF div.parent = NoneStr
        THEN <<Err("missing_parent", div.file, div.id, "parent", <<>>, NoDate, NoDate)>>
    ELSE IF div.parent # sNO /\ div.parent \notin valid_ids
        THEN <<Err("parent_not_found", div.file, div.id, "parent", div.parent, NoDate, NoDate)>>
    ELSE <<>>

RECURSIVE ParentErrors(_, _)
ParentErrors(divs, i) ==
    IF i > Len(divs) THEN <<>>
    ELSE ParentError(divs[i], Ids(divs)) \o ParentErrors(divs, i + 1)

validate_parent_links(divs) == ParentErrors(divs, 1)

\* --------------------------------------------------------- validate_dates
\* faulty variant of Inverted: a one-day Division counts as inverted
InvertedOrEqual(div) ==
    div.from_date # NoDate /\ div.to_date # NoDate /\ div.from_date >= div.to_date

Inverted(div) ==
    div.from_date # NoDate /\ div.to_date # NoDate /\ div.from_date > div.to_date

RECURSIVE InvertedErrors(_, _)
InvertedErrors(divs, i) ==
    IF i > Len(divs) THEN <<>>
    ELSE (IF Inverted(divs[i])
            THEN <<Err("inverted", divs[i].file, divs[i].id, "", <<>>,
                       divs[i].from_date, divs[i].to_date)>>
            ELSE <<>>)
         \o InvertedErrors(divs, i + 1)

\* keys of the groups dict, in insertion order
RECURSIVE GroupKeys(_, _)
GroupKeys(divs, i) ==
    IF i = 0 THEN <<>>
    ELSE LET prev == GroupKeys(divs, i - 1)
         IN IF \E j \in DOMAIN prev : prev[j] = divs[i].base_id
                THEN prev
                ELSE Append(prev, divs[i].base_id)

SameBase(d, base) == d.base_id = base

Group(divs, base) == SelectSeq(divs, LAMBDA d : SameBase(d, base))

SortKey(d) ==
    <<IF d.from_date # NoDate THEN d.from_date ELSE DateMin,
      IF d.to_date # NoDate THEN d.to_date ELSE DateMax>>

KeyLess(a, b) == a[1] < b[1] \/ (a[1] = b[1] /\ a[2] < b[2])

\* list.sort is stable: d goes after every element whose key is not greater
Insert(sorted, d) ==
    LET k == Cardinality({j \in DOMAIN sorted : ~KeyLess(SortKey(d), SortKey(sorted[j]))})
    IN SubSeq(sorted, 1, k) \o <<d>> \o SubSeq(sorted, k + 1, Len(sorted))

RECURSIVE SortDivs(_, _)
SortDivs(subset, n) == IF n = 0 THEN <<>> ELSE Insert(SortDivs(subset, n - 1), subset[n])

\* faulty variant of OverlapHit: a start on the previous end date is let through
OverlapHitStrict(last_to, div) ==
    last_to # NoDate /\ div.from_date # NoDate /\ div.from_date < last_to

OverlapHit(last_to, div) ==
    last_to # NoDate /\ div.from_date # NoDate /\ div.from_date <= last_to

NextLastTo(last_to, div) == IF div.to_date # NoDate THEN div.to_date ELSE DateMax

RECURSIVE OverlapWalk(_, _, _, _)
OverlapWalk(base, subset, i, last_to) ==
    IF i > Len(subset) THEN <<>>
    ELSE (IF OverlapHit(last_to, subset[i])
            THEN <<Err("overlap", subset[i].file, subset[i].id, "", base,
                       subset[i].from_date, last_to)>>
            ELSE <<>>)
         \o OverlapWalk(base, subset, i + 1, NextLastTo(last_to, subset[i]))

SortedGroup(divs, base) == LET g == Group(divs, base) IN SortDivs(g, Len(g))

RECURSIVE OverlapErrors(_, _, _)
OverlapErrors(divs, keys, k) ==
    IF k > Len(keys) THEN <<>>
    ELSE OverlapWalk(keys[k], SortedGroup(divs, keys[k]), 1, NoDate)
         \o OverlapErrors(divs, keys, k + 1)

validate_dates(divs) ==
    InvertedErrors(divs, 1) \o OverlapErrors(divs, GroupKeys(divs, Len(divs)), 1)

\* ------------------------------------------------------- validate_lineage
Contains(seq, x) == \E j \in DOMAIN seq : seq[j] = x

RECURSIVE TargetErrors(_, _, _, _, _, _)
TargetErrors(divs, source, field, counterpart, ids, i) ==
    IF i > Len(ids) THEN <<>>
    ELSE LET target_id == ids[i]
             rest == TargetErrors(divs, source, field, counterpart, ids, i + 1)
         IN IF target_id \notin Ids(divs)
                THEN <<Err("unknown_ref", source.file, source.id, field, target_id,
                           NoDate, NoDate)>> \o rest
                ELSE LET target == Lookup(divs, target_id)
                         other == normalize_relation(target.raw[counterpart], target.file,
                                                     target.id, counterpart)
                     IN other.e
                        \o (IF ~Contains(other.r, source.id)
                              THEN <<Err("mismatch", source.file, source.id, field, target_id,
                                         NoDate, NoDate)>>
                              ELSE <<>>)
                        \o rest

\* faulty variant of check_relation: the target is read under the same field
check_relationSameField(divs, source, field, counterpart) ==
    LET own == normalize_relation(source.raw[field], source.file, source.id, field)
    IN own.e \o TargetErrors(divs, source, field, field, own.r, 1)

check_relation(divs, source, field, counterpart) ==
    LET own == normalize_relation(source.raw[field], source.file, source.id, field)
    IN own.e \o TargetErrors(divs, source, field, counterpart, own.r, 1)

RECURSIVE LineageErrors(_, _)
LineageErrors(divs, i) ==
    IF i > Len(divs) THEN <<>>
    ELSE check_relation(divs, divs[i], "was", "became")
         \o check_relation(divs, divs[i], "became", "was")
         \o LineageErrors(divs, i + 1)

validate_lineage(divs) == LineageErrors(divs, 1)

\* ------------------------------------------------------------ the inputs
idR == <<"R">>
idR1 == <<"R", ":", "1">>
idR2 == <<"R", ":", "2">>
idR12 == <<"R", ":", "1", ":", "2">>
idS1 == <<"S", ":", "1">>
idA == <<"A">>
idB == <<"B">>
idX == <<"X">>

SeqsUpTo(S, n) == UNION {[1..k -> S] : k \in 0..n}

RawDates == {Null} \cup {DateV(d) : d \in DateMin..DateMax}

RawDateForms ==
    {Null, DateV(1), DateTimeV(1, 1), StrV(<<"1">>), StrV(<<"x">>), IntV(5)}

RawParents ==
    {Null, BoolV(FALSE), BoolV(TRUE), StrV(idR1), StrV(idS1), StrV(idX), StrV(sNO), IntV(5)}

RelItems == {StrV(idA), DictV(StrV(idB)), StrV(idX), DictV(Missing), IntV(5)}

\* a relation value: absent, not a sequence, a sequence of up to MaxRel items, or
\* the same reference given twice
RawRelations ==
    {Null, StrV(idA)}
    \cup {ListV(xs) : xs \in SeqsUpTo(RelItems, MaxRel)}
    \cup {ListV(<<x, x>>) : x \in {StrV(idA), DictV(StrV(idB))}}

LoadBlocks ==
    {Block(i, BoolV(FALSE), f, Null, Null, Null) :
        i \in {StrV(idR1), StrV(idR2), Null, IntV(7)}, f \in RawDateForms}

ParentBlocks ==
    {Block(StrV(i), p, Null, Null, Null, Null) : i \in {idR1, idS1, sYES}, p \in RawParents}

DateBlocks ==
    {Block(StrV(i), BoolV(FALSE), f, t, Null, Null) :
        i \in {idR, idR1, idR2, idR12}, f \in RawDates, t \in RawDates}

LineageBlocks ==
    {Block(StrV(i), BoolV(FALSE), Null, Null, w, Null) : i \in {idA, idB}, w \in RawRelations}
    \cup {Block(StrV(i), BoolV(FALSE), Null, Null, Null, b) : i \in {idA, idB}, b \in RawRelations}

Profiles == {"load", "parent", "dates", "lineage"}

Blocks(p) ==
    CASE p = "load" -> LoadBlocks
      [] p = "parent" -> ParentBlocks
      [] p \in {"dates", "timeline"} -> DateBlocks
      [] p = "lineage" -> LineageBlocks

\* records read in a run: the "timeline" inputs hold one more, so that a group
\* has a Division behind the one that follows the longest
RecordLimit(p) == IF p = "timeline" THEN MaxRecords + 1 ELSE MaxRecords

\* files under the root: only the "load" inputs spread records over several files
FileLimit(p) == IF p = "load" THEN MaxFiles ELSE 1

NonMappingBlocks == {Null, IntV(7), StrV(idR1)}

\* what yaml.safe_load returns for a file; a block list is given by its length
\* and its blocks are drawn when the loop reaches them
Unparseable == [t |-> "unparseable"]
Undecodable == [t |-> "undecodable"]
BlockList(n) == [t |-> "list", n |-> n]
TopMap(dv) == [t |-> "map", divisions |-> dv]

FileTops(room) ==
    {Unparseable, Undecodable, Null, IntV(0), BlockList(0), BlockList(1), StrV(idX)}
    \cup {TopMap(dv) : dv \in {Missing, Null, IntV(0), IntV(5), StrV(idX)}}
    \cup {TopMap(BlockList(n)) : n \in 0..room}

Truthy(v) ==
    CASE v.t \in {"null", "missing"} -> FALSE
      [] v.t = "int" -> v.v # 0
      [] v.t = "str" -> v.v # <<>>
      [] v.t = "list" -> v.n > 0
      [] OTHER -> TRUE

\* line 96 and line 100: "parse_error", "raise" (UnicodeDecodeError, AttributeError
\* or TypeError)
\* or the number of blocks the loop will visit
FileOutcome(top) ==
    IF top.t = "unparseable" THEN [k |-> "parse_error", n |-> 0]
    ELSE IF top.t = "undecodable" THEN [k |-> "raise", n |-> 0]
    ELSE LET data == IF Truthy(top) THEN top ELSE TopMap(Missing)
         IN IF data.t # "map" THEN [k |-> "raise", n |-> 0]
            ELSE LET dv == IF Truthy(data.divisions) THEN data.divisions ELSE BlockList(0)
                 IN IF dv.t = "list" THEN [k |-> "blocks", n |-> dv.n]
                    ELSE [k |-> "raise", n |-> 0]

\* ------------------------------------------------------------- the state
VARIABLES pc, profile, dirExists, fileIdx, pending, nRead, div_id, divisions, errors,
          exitCode, ran

vars == <<pc, profile, dirExists, fileIdx, pending, nRead, div_id, divisions, errors, exitCode, ran>>

NoExit == 0 - 1

InitWith(ps) ==
    /\ pc = "start"
    /\ profile \in ps
    /\ dirExists \in BOOLEAN
    /\ div_id = Null
    /\ ran = <<>>
    /\ fileIdx = 0
    /\ pending = 0
    /\ nRead = 0
    /\ divisions = <<>>
    /\ errors = <<>>
    /\ exitCode = NoExit

Init == InitWith(Profiles)

\* ---------------------------------------------------------------- main
MainDirMissing ==
    /\ pc = "start" /\ ~dirExists
    /\ pc' = "done"
    /\ exitCode' = 2
    /\ UNCHANGED <<profile, fileIdx, pending, nRead, divisions, errors, dirExists, div_id, ran>>

MainStart ==
    /\ pc = "start" /\ dirExists
    /\ pc' = "collect"
    /\ UNCHANGED <<profile, fileIdx, pending, nRead, divisions, errors, exitCode, dirExists, div_id, ran>>

\* an exception leaves main: the interpreter prints a traceback and exits 1
Raise ==
    /\ pc' = "crashed"
    /\ exitCode' = 1
    /\ UNCHANGED <<profile, fileIdx, pending, nRead, divisions, errors, dirExists, div_id, ran>>

\* --------------------------------------------------- collect_divisions
AtFileLoop == pc = "collect" /\ pending = 0

ReadFileParseError ==
    /\ AtFileLoop /\ fileIdx < FileLimit(profile)
    /\ \E top \in FileTops(RecordLimit(profile) - nRead) :
        /\ FileOutcome(top).k = "parse_error"
        /\ errors' = Append(errors,
                Err("parse_yaml", fileIdx + 1, <<>>, "", <<>>, NoDate, NoDate))
    /\ fileIdx' = fileIdx + 1
    /\ UNCHANGED <<pc, profile, pending, nRead, divisions, exitCode, dirExists, div_id, ran>>

ReadFileRaise ==
    /\ AtFileLoop /\ fileIdx < FileLimit(profile)
    /\ \E top \in FileTops(RecordLimit(profile) - nRead) : FileOutcome(top).k = "raise"
    /\ Raise

ReadFileBlocks ==
    /\ AtFileLoop /\ fileIdx < FileLimit(profile)
    /\ \E top \in FileTops(RecordLimit(profile) - nRead) :
        /\ FileOutcome(top).k = "blocks"
        /\ FileOutcome(top).n <= RecordLimit(profile) - nRead
        /\ pending' = FileOutcome(top).n
        /\ nRead' = nRead + FileOutcome(top).n
    /\ fileIdx' = fileIdx + 1
    /\ UNCHANGED <<pc, profile, divisions, errors, exitCode, dirExists, div_id, ran>>

LoadBlock ==
    /\ pc = "collect" /\ pending > 0
    /\ \E b \in Blocks(profile) :
        LET res == CollectBlock(divisions, errors, fileIdx, b)
        IN /\ div_id' = b.id
           /\ divisions' = res.d
           /\ errors' = res.e
    /\ pending' = pending - 1
    /\ UNCHANGED <<pc, profile, fileIdx, nRead, exitCode, dirExists, ran>>

LoadBlockRaise ==
    /\ pc = "collect" /\ pending > 0
    /\ \E b \in NonMappingBlocks : b.t # "map"
    /\ Raise

\* the file list is exhausted; the loop variable goes out of scope
CollectReturn ==
    /\ AtFileLoop
    /\ pc' = "parents"
    /\ div_id' = Null
    /\ ran' = Append(ran, "collect")
    /\ UNCHANGED <<profile, dirExists, fileIdx, pending, nRead, divisions, errors, exitCode>>

\* ------------------------------------------------------------ the passes
ValidateParentLinks ==
    /\ pc = "parents"
    /\ errors' = errors \o validate_parent_links(divisions)
    /\ pc' = "dates"
    /\ ran' = Append(ran, "parents")
    /\ UNCHANGED <<profile, dirExists, fileIdx, pending, nRead, div_id, divisions, exitCode>>

\* faulty variant of ValidateDates: the sort is done on the model itself
ValidateDatesInPlace ==
    /\ pc = "dates"
    /\ errors' = errors \o validate_dates(divisions)
    /\ divisions' = SortDivs(divisions, Len(divisions))
    /\ pc' = "lineage"
    /\ ran' = Append(ran, "dates")
    /\ UNCHANGED <<profile, dirExists, fileIdx, pending, nRead, div_id, exitCode>>

ValidateDates ==
    /\ pc = "dates"
    /\ errors' = errors \o validate_dates(divisions)
    /\ pc' = "lineage"
    /\ ran' = Append(ran, "dates")
    /\ UNCHANGED <<profile, dirExists, fileIdx, pending, nRead, div_id, divisions, exitCode>>

ValidateLineage ==
    /\ pc = "lineage"
    /\ errors' = errors \o validate_lineage(divisions)
    /\ pc' = "report"
    /\ ran' = Append(ran, "lineage")
    /\ UNCHANGED <<profile, dirExists, fileIdx, pending, nRead, div_id, divisions, exitCode>>

MainReport ==
    /\ pc = "report"
    /\ exitCode' = IF errors # <<>> THEN 1 ELSE 0
    /\ pc' = "done"
    /\ UNCHANGED <<profile, fileIdx, pending, nRead, divisions, errors, dirExists, div_id, ran>>

Next ==
    \/ MainDirMissing
    \/ MainStart
    \/ ReadFileParseError
    \/ ReadFileRaise
    \/ ReadFileBlocks
    \/ LoadBlock
    \/ LoadBlockRaise
    \/ CollectReturn
    \/ ValidateParentLinks
    \/ ValidateDates
    \/ ValidateLineage
    \/ MainReport

Spec == Init /\ [][Next]_vars

SpecLoad == InitWith({"load"}) /\ [][Next]_vars

SpecParent == InitWith({"parent"}) /\ [][Next]_vars

SpecDates == InitWith({"dates"}) /\ [][Next]_vars

SpecTimeline == InitWith({"timeline"}) /\ [][Next]_vars

SpecLineage == InitWith({"lineage"}) /\ [][Next]_vars

\* ======================================================== the properties
Count(seq, P(_)) == Cardinality({i \in DOMAIN seq : P(seq[i])})

IsPrefix(a, b) == Len(a) <= Len(b) /\ SubSeq(b, 1, Len(a)) = a

Ran(pass) == Contains(ran, pass)

Divs == {divisions[i] : i \in DOMAIN divisions}

ErrCount(kinds, id) == Count(errors, LAMBDA e : e.kind \in kinds /\ e.id = id)

FieldErrCount(kinds, id, field) ==
    Count(errors, LAMBDA e : e.kind \in kinds /\ e.id = id /\ e.field = field)

RefErrCount(kind, id, field, ref) ==
    Count(errors, LAMBDA e : e.kind = kind /\ e.id = id /\ e.field = field /\ e.ref = ref)

\* --------------------------------------------------------------------- C1
\* C1: collect_divisions never raises, whatever a single data file holds: the
\* run never ends in an exception propagating out of the loader.
C1_CollectNeverRaises == pc # "crashed"

\* --------------------------------------------------------------------- C2
InvalidDate(raw) ==
    raw.t \notin {"null", "date", "datetime"} /\ ~(raw.t = "str" /\ IsIso(raw.v))

InvalidParent(raw) == raw.t \notin {"null", "bool", "str"}

ItemOk(item) == item.t = "str" \/ (item.t = "map" /\ item.id.t = "str")

MalformedCount(raw) ==
    IF raw.t = "null" THEN 0
    ELSE IF raw.t = "list" THEN Cardinality({i \in DOMAIN raw.v : ~ItemOk(raw.v[i])})
    ELSE 1

B2N(b) == IF b THEN 1 ELSE 0

\* C2: over a whole run every malformed field of an admitted Division (invalid
\* from/to, invalid parent encoding, non-sequence was/became, malformed item of
\* a was/became sequence) has exactly one entry in the error list, however many
\* Divisions reference it, and the Division stays in the model with the field
\* defaulted.
C2_OneErrorPerMalformedField ==
    Ran("lineage") =>
        \A d \in Divs :
            /\ ErrCount({"date_type", "date_invalid"}, d.id)
                   = B2N(InvalidDate(d.raw.from)) + B2N(InvalidDate(d.raw.to))
            /\ ErrCount({"parent_type"}, d.id) = B2N(InvalidParent(d.raw.parent))
            /\ InvalidDate(d.raw.from) => d.from_date = NoDate
            /\ InvalidDate(d.raw.to) => d.to_date = NoDate
            /\ InvalidParent(d.raw.parent) => d.parent = NoneStr
            /\ \A field \in {"was", "became"} :
                FieldErrCount({"rel_not_list", "rel_item_dict", "rel_item_type"}, d.id, field)
                    = MalformedCount(d.raw[field])

\* --------------------------------------------------------------------- C3
Lo(d) == IF d.from_date # NoDate THEN d.from_date ELSE DateMin

Hi(d) == IF d.to_date # NoDate THEN d.to_date ELSE DateMax

MaxHi(g, n) == CHOOSE m \in {Hi(g[j]) : j \in 1..n} : \A j \in 1..n : Hi(g[j]) <= m

Bases == {d.base_id : d \in Divs}

\* C3: in each baseId group, sorted by (validFrom, validTo), a timeline-overlap
\* error is reported for a Division exactly when its validFrom is present and is
\* at most the maximum validTo (absent = latest date) over all Divisions before
\* it in the sorted group.
C3_OverlapAgainstRunningMax ==
    Ran("dates") =>
        \A base \in Bases :
            LET g == SortedGroup(divisions, base)
            IN \A i \in DOMAIN g :
                (ErrCount({"overlap"}, g[i].id) >= 1)
                    <=> (i > 1 /\ g[i].from_date # NoDate /\ g[i].from_date <= MaxHi(g, i - 1))

\* --------------------------------------------------------------------- C4
Disjoint(a, b) == Hi(a) < Lo(b) \/ Hi(b) < Lo(a)

GroupOf(base) == {d \in Divs : d.base_id = base}

GroupClean(base) ==
    \A d \in GroupOf(base) : ErrCount({"inverted", "overlap"}, d.id) = 0

\* an overlap error names the group of the offending Division and the end date
\* of another Division of the same group
OverlapWithinGroup ==
    \A k \in DOMAIN errors :
        errors[k].kind = "overlap" =>
            \E d \in Divs, o \in Divs :
                /\ d.id = errors[k].id /\ o.id # d.id
                /\ errors[k].ref = d.base_id /\ o.base_id = d.base_id
                /\ Hi(o) = errors[k].d2

StartsLater(d) == d.from_date # NoDate /\ d.from_date > DateMin

\* C4 as stated: a baseId group for which validate_dates appends no error has
\* pairwise disjoint validity intervals (absent validFrom = earliest date,
\* absent validTo = latest date), and Divisions of different baseId never cause
\* an overlap error against each other.
C4_NoErrorImpliesDisjoint ==
    Ran("dates") =>
        /\ \A base \in Bases :
            GroupClean(base) =>
                \A a \in GroupOf(base), b \in GroupOf(base) : a.id # b.id => Disjoint(a, b)
        /\ OverlapWithinGroup

\* C4 amended: in a group without errors any two Divisions are disjoint unless
\* both start at the earliest possible date (validFrom absent, or present and
\* equal to the earliest date): a Division with an absent validFrom is never
\* tested against its predecessors.  Overlap errors stay within one group.
C4_NoErrorImpliesDisjointLaterStarts ==
    Ran("dates") =>
        /\ \A base \in Bases :
            GroupClean(base) =>
                \A a \in GroupOf(base), b \in GroupOf(base) :
                    (a.id # b.id /\ (StartsLater(a) \/ StartsLater(b))) => Disjoint(a, b)
        /\ OverlapWithinGroup

C4_Witness ==
    /\ Ran("dates")
    /\ \E base \in Bases :
        /\ GroupClean(base)
        /\ Cardinality(GroupOf(base)) = 2
        /\ \E d \in GroupOf(base) : d.from_date = NoDate
        /\ \E d \in GroupOf(base) : StartsLater(d)

\* --------------------------------------------------------------------- C9
\* C9: validate_dates appends exactly one inverted-range error for a Division
\* exactly when validFrom and validTo are both present and validFrom is strictly
\* after validTo, whether or not the Division also has a timeline-overlap error.
C9_InvertedRange ==
    Ran("dates") =>
        \A d \in Divs :
            ErrCount({"inverted"}, d.id)
                = B2N(d.from_date # NoDate /\ d.to_date # NoDate /\ d.from_date > d.to_date)

C9_Witness ==
    /\ Ran("dates")
    /\ \E d \in Divs :
        /\ ErrCount({"inverted"}, d.id) = 1
        /\ ErrCount({"overlap"}, d.id) = 1
    /\ \E d \in Divs : d.from_date # NoDate /\ d.from_date <= d.to_date

\* --------------------------------------------------------------------- C5
RefIds == {idA, idB, idX}

\* occurrences of the identifier t in a raw relation value
Occurrences(raw, t) ==
    IF raw.t # "list" THEN 0
    ELSE Cardinality({i \in DOMAIN raw.v :
            \/ raw.v[i].t = "str" /\ raw.v[i].v = t
            \/ raw.v[i].t = "map" /\ raw.v[i].id.t = "str" /\ raw.v[i].id.v = t})

Directions == {<<"became", "was">>, <<"was", "became">>}

\* C5: for a source Division, a direction (became/was or was/became) and a
\* target id, validate_lineage appends one lineage-mismatch error per occurrence
\* of the target in the source's list when the target exists and its counterpart
\* list does not contain the source, none when it does, and one 'references
\* unknown id' error per occurrence (and no mismatch) when the target is absent
\* from the model.
C5_LineageReciprocity ==
    Ran("lineage") =>
        \A src \in Divs, dir \in Directions, t \in RefIds :
            LET occ == Occurrences(src.raw[dir[1]], t)
                mism == RefErrCount("mismatch", src.id, dir[1], t)
                unk == RefErrCount("unknown_ref", src.id, dir[1], t)
            IN IF t \in Ids(divisions)
                 THEN /\ unk = 0
                      /\ mism = IF Occurrences(Lookup(divisions, t).raw[dir[2]], src.id) > 0
                                  THEN 0 ELSE occ
                 ELSE mism = 0 /\ unk = occ

C5_Witness ==
    /\ Ran("lineage")
    /\ RefErrCount("mismatch", idA, "became", idB) = 2
    /\ \E d \in Divs : d.id = idB /\ Occurrences(d.raw["became"], idX) = 1
    /\ RefErrCount("unknown_ref", idB, "became", idX) = 1

\* --------------------------------------------------------------------- C6
UniqueIds ==
    \A i \in DOMAIN divisions, j \in DOMAIN divisions :
        divisions[i].id = divisions[j].id => i = j

\* the loop has just read a record whose id is already in the model
DuplicateRead ==
    /\ pc = "collect" /\ pending > 0 /\ pc' = "collect" /\ pending' = pending - 1
    /\ div_id'.t = "str"
    /\ div_id'.v \in Ids(divisions)

\* C6: identifiers of the model are unique and first-wins: reading a record
\* whose id is already in the model appends exactly one duplicate-id error,
\* naming the file being read and the first record's file, and changes nothing
\* else: the model keeps the first record as it was and the later record adds
\* no other error and no entry.
C6_FirstWins ==
    /\ []UniqueIds
    /\ [][DuplicateRead =>
            /\ divisions' = divisions
            /\ errors' = Append(errors,
                    Err("duplicate_id", fileIdx, div_id'.v, "", <<>>,
                        Lookup(divisions, div_id'.v).file, NoDate))]_vars

C6_Witness ==
    /\ pc = "collect"
    /\ Len(divisions) = 1
    /\ div_id = StrV(divisions[1].id)
    /\ errors # <<>>
    /\ errors[Len(errors)].kind = "duplicate_id"
    /\ errors[Len(errors)].file = 2
    /\ errors[Len(errors)].d1 = 1

\* --------------------------------------------------------------------- C7
\* C7: for each Division, validate_parent_links appends exactly one error when
\* the parent is absent, exactly one dangling-parent error when the parent is
\* present, is not "NO" and is no id of the model, and no error otherwise.
C7_ParentLinks ==
    Ran("parents") =>
        \A d \in Divs :
            LET missing == ErrCount({"missing_parent"}, d.id)
                dangling == ErrCount({"parent_not_found"}, d.id)
            IN IF d.parent = NoneStr THEN missing = 1 /\ dangling = 0
               ELSE IF d.parent # sNO /\ d.parent \notin Ids(divisions)
                    THEN missing = 0 /\ dangling = 1
               ELSE missing = 0 /\ dangling = 0

C7_Witness ==
    /\ Ran("parents")
    /\ \E d \in Divs : d.parent = sNO /\ ErrCount({"missing_parent", "parent_not_found"}, d.id) = 0
    /\ \E d \in Divs :
        \/ d.parent = idX /\ ErrCount({"parent_not_found"}, d.id) = 1
        \/ d.parent = NoneStr /\ ErrCount({"missing_parent"}, d.id) = 1

\* --------------------------------------------------------------------- C8
AllPasses == <<"collect", "parents", "dates", "lineage">>

\* C8: a run of main ends with exit code 2 and nothing run when the directory
\* does not exist; otherwise the loader and the three passes have all run, in
\* that order, and the exit code is 1 when the error list is non-empty and 0
\* when it is empty.
C8_ExitCodes ==
    pc \in {"done", "crashed"} =>
        IF ~dirExists THEN exitCode = 2 /\ ran = <<>>
        ELSE ran = AllPasses /\ exitCode = (IF errors # <<>> THEN 1 ELSE 0)

\* -------------------------------------------------------------------- C10
\* C10: once collect_divisions has returned the model never changes, and every
\* step only appends to the error list.
C10_ModelImmutable ==
    [][Ran("collect") => divisions' = divisions /\ IsPrefix(errors, errors')]_vars

C10_Witness ==
    /\ pc = "done"
    /\ Len(divisions) >= 2
    /\ \E k \in DOMAIN errors : errors[k].kind = "overlap"
    /\ \E i \in DOMAIN divisions, j \in DOMAIN divisions :
        i < j /\ KeyLess(SortKey(divisions[j]), SortKey(divisions[i]))

====
